---- MODULE Spec2Model ----
(***************************************************************************)
(* Model of readTrc.py: the class Trc, which decodes LeCroy .trc waveform  *)
(* files.  One call of Trc.open is a sequence of steps (the sections of    *)
(* the method); every step reads bytes of the opened file through          *)
(* _readX / _readS / _readSamples exactly as the source does.              *)
(*                                                                         *)
(* Numbers.  Integers are Python integers.  A float or double is held as   *)
(* the integer 64 * value (six fractional bits); the files of the model    *)
(* hold only floats whose value is such a multiple of 1/64 of small        *)
(* magnitude, on which IEEE arithmetic is exact.  A byte string is a       *)
(* sequence of bytes 0..255; a decoded text is the sequence of its codes   *)
(* (the files hold ASCII bytes and the byte 255, which never decodes).     *)
(***************************************************************************)
EXTENDS Integers, Sequences, FiniteSets, TLC

VARIABLES
    host,   \* byte order of the machine running the program: "<" or ">"
    dir,    \* the names of the files at hand in this run
    trc,    \* the Trc instance, the open() call in progress and its files
    calls   \* number of open() calls made on the instance

vars == <<host, dir, trc, calls>>

-----------------------------------------------------------------------------
(* Arithmetic helpers *)

Min(a, b) == IF a < b THEN a ELSE b

Max(a, b) == IF a > b THEN a ELSE b

RECURSIVE Pow2(_)
Pow2(n) == IF n = 0 THEN 1 ELSE 2 * Pow2(n - 1)

\* Python's int(): division truncating toward zero.
TruncDiv(a, b) == IF a >= 0 THEN a \div b ELSE -((-a) \div b)

Reverse(s) == [i \in 1..Len(s) |-> s[Len(s) + 1 - i]]

\* The bytes of b in most-significant-first order, b being in byte order `order`.
MSB(b, order) == IF order = "<" THEN Reverse(b) ELSE b

-----------------------------------------------------------------------------
(* The class constants *)

_recTypes ==
    << "single_sweep", "interleaved", "histogram", "graph",
       "filter_coefficient", "complex", "extrema",
       "sequence_obsolete", "centered_RIS", "peak_detect" >>

_processings ==
    << "no_processing", "fir_filter", "interpolated", "sparsed",
       "autoscaled", "no_result", "rolling", "cumulative" >>

_timebases ==
    << "1_ps/div", "2_ps/div", "5_ps/div", "10_ps/div", "20_ps/div",
       "50_ps/div", "100_ps/div", "200_ps/div", "500_ps/div", "1_ns/div",
       "2_ns/div", "5_ns/div", "10_ns/div", "20_ns/div", "50_ns/div",
       "100_ns/div", "200_ns/div", "500_ns/div", "1_us/div", "2_us/div",
       "5_us/div", "10_us/div", "20_us/div", "50_us/div", "100_us/div",
       "200_us/div", "500_us/div", "1_ms/div", "2_ms/div", "5_ms/div",
       "10_ms/div", "20_ms/div", "50_ms/div", "100_ms/div", "200_ms/div",
       "500_ms/div", "1_s/div", "2_s/div", "5_s/div", "10_s/div",
       "20_s/div", "50_s/div", "100_s/div", "200_s/div", "500_s/div",
       "1_ks/div", "2_ks/div", "5_ks/div", "EXTERNAL" >>

_vCouplings == << "DC_50_Ohms", "ground", "DC_1MOhm", "ground", "AC,_1MOhm" >>

_vGains ==
    << "1_uV/div", "2_uV/div", "5_uV/div", "10_uV/div", "20_uV/div",
       "50_uV/div", "100_uV/div", "200_uV/div", "500_uV/div", "1_mV/div",
       "2_mV/div", "5_mV/div", "10_mV/div", "20_mV/div", "50_mV/div",
       "100_mV/div", "200_mV/div", "500_mV/div", "1_V/div", "2_V/div",
       "5_V/div", "10_V/div", "20_V/div", "50_V/div", "100_V/div",
       "200_V/div", "500_V/div", "1_kV/div" >>

\* b'WAVEDESC'
WAVEDESC == <<87, 65, 86, 69, 68, 69, 83, 67>>

\* "LECROY_2_3"
LECROY_2_3 == <<76, 69, 67, 82, 79, 89, 95, 50, 95, 51>>

\* An attribute or local that has not been assigned yet.
Unset == "unset"

\* An empty dict().
EmptyDict == [k \in {} |-> 0]

-----------------------------------------------------------------------------
(* struct: sizes and decoding of the formats the program uses.  A format   *)
(* is a kind ("b", "h", "H", "l", "f", "d", "s") and, for "s", a count.    *)

calcsize(fmt, n) ==
    CASE fmt = "b" -> 1
      [] fmt = "h" -> 2
      [] fmt = "H" -> 2
      [] fmt = "l" -> 4
      [] fmt = "f" -> 4
      [] fmt = "d" -> 8
      [] fmt = "s" -> n

\* Unsigned value of the bytes b, most significant first.
RECURSIVE Unsigned(_)
Unsigned(b) ==
    IF Len(b) = 0 THEN 0
    ELSE 256 * Unsigned(SubSeq(b, 1, Len(b) - 1)) + b[Len(b)]

\* Two's complement value of the bytes b, most significant first.
Signed(b) ==
    LET top == IF b[1] >= 128 THEN b[1] - 256 ELSE b[1]
    IN  top * Pow2(8 * (Len(b) - 1)) + Unsigned(SubSeq(b, 2, Len(b)))

\* 64 * (value of the IEEE-754 single b), b most significant first.
Float32(b) ==
    LET sign == b[1] \div 128
        e    == (b[1] % 128) * 2 + b[2] \div 128
        mant == (b[2] % 128) * 65536 + b[3] * 256 + b[4]
        sig  == 8388608 + mant
        mag  == IF e = 0 /\ mant = 0 THEN 0
                ELSE IF e >= 144 THEN sig * Pow2(e - 144)
                ELSE IF 144 - e >= 25 THEN 0
                ELSE sig \div Pow2(144 - e)
    IN  IF sign = 1 THEN -mag ELSE mag

\* 64 * (value of the IEEE-754 double b), b most significant first; the
\* low 32 bits of the significand are zero in every file of the model.
Float64(b) ==
    LET sign == b[1] \div 128
        e    == (b[1] % 128) * 16 + b[2] \div 16
        mant == (b[2] % 16) * 65536 + b[3] * 256 + b[4]
        sig  == 1048576 + mant
        mag  == IF e = 0 /\ mant = 0 THEN 0
                ELSE IF e >= 1037 THEN sig * Pow2(e - 1037)
                ELSE IF 1037 - e >= 22 THEN 0
                ELSE sig \div Pow2(1037 - e)
    IN  IF sign = 1 THEN -mag ELSE mag

\* struct.unpack(order + fmt, b)[0]
unpack(fmt, order, b) ==
    CASE fmt = "b" -> Signed(b)
      [] fmt = "h" -> Signed(MSB(b, order))
      [] fmt = "H" -> Unsigned(MSB(b, order))
      [] fmt = "l" -> Signed(MSB(b, order))
      [] fmt = "f" -> Float32(MSB(b, order))
      [] fmt = "d" -> Float64(MSB(b, order))
      [] fmt = "s" -> b

\* bytes.find(pat): index of the first occurrence of pat in b, or -1.
Find(b, pat) ==
    LET hits == { i \in 0..(Len(b) - Len(pat)) :
                     SubSeq(b, i + 1, i + Len(pat)) = pat }
    IN  IF hits = {} THEN -1
        ELSE CHOOSE i \in hits : \A j \in hits : i <= j

\* bytes.split(b'\x00')[0]
BeforeNul(b) ==
    LET nuls == { i \in 1..Len(b) : b[i] = 0 }
    IN  IF nuls = {} THEN b
        ELSE SubSeq(b, 1, (CHOOSE i \in nuls : \A j \in nuls : i <= j) - 1)

\* Whether bytes.decode() succeeds (on ASCII bytes and the byte 255).
Decodable(b) == \A i \in 1..Len(b) : b[i] < 128

-----------------------------------------------------------------------------
(* datetime.datetime(Y, M, D, h, m, s, us): the range checks *)

IsLeap(Y) == Y % 4 = 0 /\ (Y % 100 # 0 \/ Y % 400 = 0)

DaysInMonth(Y, M) ==
    IF M = 2 THEN (IF IsLeap(Y) THEN 29 ELSE 28)
    ELSE IF M \in {4, 6, 9, 11} THEN 30 ELSE 31

ValidDateTime(Y, M, D, h, mi, s, us) ==
    /\ 1 <= Y /\ Y <= 9999
    /\ 1 <= M /\ M <= 12
    /\ 1 <= D /\ D <= DaysInMonth(Y, M)
    /\ 0 <= h /\ h <= 23
    /\ 0 <= mi /\ mi <= 59
    /\ 0 <= s /\ s <= 59
    /\ 0 <= us /\ us <= 999999

-----------------------------------------------------------------------------
(* The input files.  A file is described by the values stored in it and    *)
(* laid out as the format prescribes: an optional preamble, the WAVEDESC   *)
(* block (descriptor), the user text, the trigger-time and RIS-time        *)
(* arrays, wave array 1 and wave array 2.  `drop` leading bytes and `cut`  *)
(* trailing bytes are then removed (a damaged or truncated file).          *)

\* Bound: the longest ordinary preamble before the WAVEDESC block.
MaxPre == 2

\* Bound: how far past the end of its table an enumeration index goes.
MaxOver == 1

\* Bound: the number of open() calls made on one Trc instance.
MaxCalls == 2

\* Number of leading bytes open() searches for the marker.
HeadLen == 64

\* Length of the descriptor in a LECROY_2_3 file.
NominalDesc == 346

\* v as `width` bytes in byte order `order` (two's complement).
EncInt(v, width, order) ==
    MSB([i \in 1..width |-> (v \div Pow2(8 * (width - i))) % 256], order)

BaseFile ==
    [ pre |-> 0, drop |-> 0, cut |-> 0, order |-> "<", fmt16 |-> TRUE,
      marker |-> WAVEDESC, template |-> LECROY_2_3,
      ldesc |-> NominalDesc, text |-> <<72, 105, 0, 120>>,
      ltt |-> 0, lrt |-> 0,
      wave |-> <<1, 0, 255, 127>>, wave2 |-> <<>>,
      instr |-> <<76, 67>>,
      gain |-> <<64, 0, 0, 0>>,                  \* 2.0
      voff |-> <<63, 0, 0, 0>>,                  \* 0.5
      hi   |-> <<63, 0, 0, 0>>,                  \* 0.5
      ho   |-> <<191, 244, 0, 0, 0, 0, 0, 0>>,   \* -1.25
      sec  |-> <<64, 70, 160, 0, 0, 0, 0, 0>>,   \* 45.25
      mi |-> 30, hr |-> 14, dy |-> 5, mo |-> 6, yr |-> 2015,
      recType |-> 0, processing |-> 0, timebase |-> 0,
      vCoupling |-> 0, vGain |-> 0, bwl |-> 1 ]

\* The fields of the descriptor: <<offset, width, name>>.
HeaderLayout ==
    << <<0, 8, "marker">>, <<16, 16, "template">>, <<32, 2, "fmt16">>,
       <<34, 2, "order">>, <<36, 4, "ldesc">>, <<40, 4, "ltext">>,
       <<48, 4, "ltt">>, <<52, 4, "lrt">>, <<60, 4, "lwave">>,
       <<64, 4, "lwave2">>, <<76, 16, "instr">>, <<92, 4, "number">>,
       <<156, 4, "gain">>, <<160, 4, "voff">>, <<176, 4, "hi">>,
       <<180, 8, "ho">>, <<296, 8, "sec">>, <<304, 1, "mi">>,
       <<305, 1, "hr">>, <<306, 1, "dy">>, <<307, 1, "mo">>,
       <<308, 2, "yr">>, <<316, 2, "recType">>, <<318, 2, "processing">>,
       <<324, 2, "timebase">>, <<326, 2, "vCoupling">>, <<332, 2, "vGain">>,
       <<334, 2, "bwl">> >>

\* s followed by zero bytes up to length n.
PadTo(s, n) == [i \in 1..n |-> IF i <= Len(s) THEN s[i] ELSE 0]

\* The integer a field of the descriptor holds.
FieldInt(p, name) ==
    CASE name = "fmt16"  -> IF p.fmt16 THEN 1 ELSE 0
      [] name = "order"  -> IF p.order = "<" THEN 1 ELSE 0
      [] name = "ltext"  -> Len(p.text)
      [] name = "lwave"  -> Len(p.wave)
      [] name = "lwave2" -> Len(p.wave2)
      [] name = "number" -> -7
      [] OTHER -> p[name]

\* The bytes of the field it = <<offset, width, name>>, as stored.
FieldBytes(p, it) ==
    CASE it[3] \in {"marker", "template", "instr"} -> PadTo(p[it[3]], it[2])
      [] it[3] \in {"gain", "voff", "hi", "ho", "sec"} -> MSB(p[it[3]], p.order)
      [] OTHER -> EncInt(FieldInt(p, it[3]), it[2], p.order)

\* The fields of the descriptor that hold byte q.
FieldsAt(q) ==
    { it \in { HeaderLayout[k] : k \in 1..Len(HeaderLayout) } :
        it[1] <= q /\ q < it[1] + it[2] }

\* Byte q of the descriptor, given the fields that hold it: a field's
\* byte, 0 between fields, and "Z" in the padding of a descriptor longer
\* than the nominal one.
FieldByte(p, q, its) ==
    IF its = {} THEN (IF q >= NominalDesc THEN 90 ELSE 0)
    ELSE FieldBytes(p, CHOOSE it \in its : TRUE)[q - (CHOOSE it \in its : TRUE)[1] + 1]

HeaderByte(p, q) == FieldByte(p, q, FieldsAt(q))

\* Length of the file.
FileLen(p) ==
    p.pre + p.ldesc + Len(p.text) + p.ltt + p.lrt + Len(p.wave) + Len(p.wave2)
    - p.drop - p.cut

\* The byte at position q of the block, q >= 0 (the descriptor first).
BlockByte(p, q) ==
    LET t  == q - p.ldesc                   \* position after the descriptor
        w  == t - Len(p.text) - p.ltt - p.lrt   \* position in the wave arrays
    IN  IF t < 0 THEN HeaderByte(p, q)
        ELSE IF t < Len(p.text) THEN p.text[t + 1]
        ELSE IF t < Len(p.text) + p.ltt THEN 170
        ELSE IF w < 0 THEN 187
        ELSE IF w < Len(p.wave) THEN p.wave[w + 1]
        ELSE p.wave2[w - Len(p.wave) + 1]

\* The byte at position pos (from 0) of the file.
ByteAt(p, pos) ==
    IF pos + p.drop < p.pre THEN 32 ELSE BlockByte(p, pos + p.drop - p.pre)

\* The content of the file.
Bytes(p) == [i \in 1..FileLen(p) |-> ByteAt(p, i - 1)]

\* Where the block starts: no preamble, short preambles, the last place
\* where the marker lies within the first HeadLen bytes, the first place
\* where it does not, a file that lost its first byte, a wrong marker.
MarkerFiles ==
    { [BaseFile EXCEPT !.pre = k] : k \in (1..MaxPre) \cup {HeadLen - 8, HeadLen - 7} }
    \cup { [BaseFile EXCEPT !.drop = 1],
           [BaseFile EXCEPT !.marker = <<87, 65, 86, 69, 70, 79, 82, 77>>] }

\* Byte order, sample width, and data after wave array 1.
EndianFiles ==
    { [BaseFile EXCEPT !.order = o, !.fmt16 = w, !.wave2 = t] :
        o \in {"<", ">"}, w \in BOOLEAN, t \in {<<>>, <<7, 0, 8, 0>>} }

\* Section lengths: descriptor, user text, trigger-time and RIS-time arrays.
SectionFiles ==
    { [BaseFile EXCEPT !.ldesc = l, !.text = t] :
        l \in {NominalDesc, NominalDesc + 4},
        t \in { <<72, 105, 0, 120>>, <<0, 97, 98, 99>>, <<65, 66, 67, 68>>,
                <<>>, <<72, 255, 0, 0>> } }
    \cup { [BaseFile EXCEPT !.ltt = a, !.lrt = b, !.pre = c] :
             a \in {0, 2}, b \in {0, 3}, c \in {0, 1} }

\* Enumeration indices: valid ones, the table length and beyond.
EnumIdx(table) ==
    {1, Len(table) - 1, 65535} \cup (Len(table)..(Len(table) + MaxOver))

EnumFiles ==
    { [BaseFile EXCEPT !.recType = i] : i \in EnumIdx(_recTypes) }
    \cup { [BaseFile EXCEPT !.processing = i] : i \in EnumIdx(_processings) }
    \cup { [BaseFile EXCEPT !.timebase = i] : i \in EnumIdx(_timebases) }
    \cup { [BaseFile EXCEPT !.vCoupling = i] : i \in EnumIdx(_vCouplings) }
    \cup { [BaseFile EXCEPT !.vGain = i] : i \in EnumIdx(_vGains) }

\* Trigger times: valid ones and every kind of field out of range.
TimeFiles ==
    { [BaseFile EXCEPT !.sec = s] :
        s \in { <<64, 77, 254, 0, 0, 0, 0, 0>>,       \* 59.984375
                <<64, 78, 0, 0, 0, 0, 0, 0>>,         \* 60.0
                <<191, 224, 0, 0, 0, 0, 0, 0>>,       \* -0.5
                <<0, 0, 0, 0, 0, 0, 0, 0>> } }        \* 0.0
    \cup { [BaseFile EXCEPT !.mo = m, !.dy = d, !.yr = y] :
             m \in {2, 13}, d \in {29, 32}, y \in {2015, 2016} }
    \cup { [BaseFile EXCEPT !.mo = 0], [BaseFile EXCEPT !.dy = 31],
           [BaseFile EXCEPT !.dy = 0], [BaseFile EXCEPT !.hr = 24],
           [BaseFile EXCEPT !.mi = 60], [BaseFile EXCEPT !.mi = -1],
           [BaseFile EXCEPT !.yr = 0], [BaseFile EXCEPT !.yr = -1],
           [BaseFile EXCEPT !.yr = 9999, !.order = ">"],
           [BaseFile EXCEPT !.hr = 23, !.mi = 59, !.dy = 30, !.mo = 12] }

\* Scaling and axis values, sample counts, template names.
AxisFiles ==
    { [BaseFile EXCEPT !.hi = h, !.ho = o, !.wave = w] :
        h \in { <<62, 128, 0, 0>>, <<191, 192, 0, 0>> },       \* 0.25, -1.5
        o \in { <<0, 0, 0, 0, 0, 0, 0, 0>>, <<63, 224, 0, 0, 0, 0, 0, 0>> },
        w \in { <<>>, <<5, 0>>, <<1, 0, 2, 0, 253, 255>> } }
    \cup { [BaseFile EXCEPT !.gain = <<191, 192, 0, 0>>, !.voff = <<62, 128, 0, 0>>],
           [BaseFile EXCEPT !.template = <<76, 69, 67, 82, 79, 89, 95, 49, 95, 48>>],
           [BaseFile EXCEPT !.template = <<76, 255>>],
           [BaseFile EXCEPT !.instr = <<255>>] }

\* Sizes at which the base file is cut: in and between the fields read.
CutSizes ==
    { 0, 8, 31, 33, 35, 39, 63, 67, 91, 159, 187, 303, 304, 307, 309, 315,
      317, 345, 346, 347, 349, 350, 351, 353 }

TruncFiles ==
    { [BaseFile EXCEPT !.cut = FileLen(BaseFile) - s] : s \in CutSizes }
    \cup { [BaseFile EXCEPT !.fmt16 = FALSE, !.cut = 1],
           [BaseFile EXCEPT !.order = ">", !.cut = 3] }

\* Files that differ in byte order, sample width, block offset and section
\* lengths, and files on which open() fails at different places.
MixedFiles ==
    { [BaseFile EXCEPT !.order = ">"],
      [BaseFile EXCEPT !.fmt16 = FALSE, !.wave2 = <<7, 0, 8, 0>>],
      [BaseFile EXCEPT !.order = ">", !.fmt16 = FALSE],
      [BaseFile EXCEPT !.ltt = 2, !.lrt = 3, !.pre = 1],
      [BaseFile EXCEPT !.ldesc = NominalDesc + 4, !.text = <<65, 66, 67, 68>>],
      [BaseFile EXCEPT !.drop = 1],
      [BaseFile EXCEPT !.cut = FileLen(BaseFile) - 8],
      [BaseFile EXCEPT !.cut = FileLen(BaseFile) - 33],
      [BaseFile EXCEPT !.cut = FileLen(BaseFile) - 39],
      [BaseFile EXCEPT !.vGain = Len(_vGains)],
      [BaseFile EXCEPT !.mo = 13, !.dy = 29, !.yr = 2015] }

\* The sets of files a run may have at hand: each holds the base file.
Directories ==
    { {BaseFile} \cup S :
        S \in { MarkerFiles, EndianFiles, SectionFiles, EnumFiles, TimeFiles,
                AxisFiles, TruncFiles, MixedFiles } }

\* The file system: file name (the description of the file) -> content.
Files == [p \in UNION Directories |-> Bytes(p)]

\* file.seek(pos); file.read(n) on a file of content C
ReadBytes(C, pos, n) == SubSeq(C, pos + 1, Min(pos + n, Len(C)))

-----------------------------------------------------------------------------
(* The Trc instance and the frame of the open() call in progress.          *)
(*   self    : the instance attributes                                     *)
(*   handles : the file objects created so far, [name, open, pos]; the     *)
(*             name of a file is the description of its content            *)
(*   pc      : the section of open() to run next, or how the call ended    *)
(*   d, y, x : the locals of open(); after "returned", the returned tuple  *)
(*   exc     : the exception being propagated                              *)
(*   warned  : whether the template warning was printed                    *)

__init__ ==
    [ _f |-> 0, _offs |-> 0, _smplFmt |-> "int16", _endi |-> "",
      _TEMPLATE_NAME |-> Unset,
      _lWAVE_DESCRIPTOR |-> Unset, _lUSER_TEXT |-> Unset,
      _lTRIGTIME_ARRAY |-> Unset, _lRIS_TIME_ARRAY |-> Unset,
      _lWAVE_ARRAY_1 |-> Unset, _lWAVE_ARRAY_2 |-> Unset,
      f |-> Unset, x |-> Unset, y |-> Unset, d |-> Unset ]

NewTrc ==
    [ self |-> __init__, handles |-> <<>>, pc |-> "idle", exc |-> "",
      d |-> EmptyDict, y |-> <<>>, x |-> <<>>, warned |-> FALSE ]

Raise(m, e) == [m EXCEPT !.exc = e, !.pc = "raise"]

\* The exception a use of self._f raises, "" when it is an open file.
FileError(m) ==
    IF m.self._f = 0 THEN "AttributeError"
    ELSE IF ~m.handles[m.self._f].open THEN "ValueError"
    ELSE ""

\* The content of the file self._f reads.
Content(m) == Files[m.handles[m.self._f].name]

\* The `with` statement leaving its block: the file it opened is closed.
CloseFile(m) ==
    [m EXCEPT !.handles[Len(m.handles)] = [@ EXCEPT !.open = FALSE, !.pos = 0]]

\* The instance after self._f was read up to position pos.
Moved(m, pos) == [m EXCEPT !.handles[m.self._f].pos = pos]

\* The result of a read that raised: [exc, val, m].
Failed(m, e) == [exc |-> e, val |-> 0, m |-> m]

\* The byte order _readX unpacks in: self._endi, "" being the machine's.
Order(m) == IF m.self._endi = "" THEN host ELSE m.self._endi

\* Where _readX reads: adr + self._offs, or the current position.
Target(m, hasAdr, adr) ==
    IF hasAdr THEN adr + m.self._offs ELSE m.handles[m.self._f].pos

\* s = struct.unpack(fmt, <the bytes b read at p>)
unpackRead(m, fmt, n, p, b) ==
    IF Len(b) < calcsize(fmt, n) THEN Failed(Moved(m, p + Len(b)), "struct.error")
    ELSE [exc |-> "", val |-> unpack(fmt, Order(m), b), m |-> Moved(m, p + Len(b))]

\* _readX(fmt, adr): [exc, val, m].  fmt is the kind and, for "s", the
\* count n; hasAdr is "adr is not None".
_readX(m, fmt, n, hasAdr, adr) ==
    IF fmt = "s" /\ n < 0 THEN Failed(m, "struct.error")
    ELSE IF FileError(m) # "" THEN Failed(m, FileError(m))
    ELSE IF Target(m, hasAdr, adr) < 0 THEN Failed(m, "OSError")
    ELSE unpackRead(m, fmt, n, Target(m, hasAdr, adr),
                    ReadBytes(Content(m), Target(m, hasAdr, adr), calcsize(fmt, n)))

\* temp = <r>.split(b'\x00')[0]; return temp.decode()
decodeS(r) ==
    IF r.exc # "" THEN r
    ELSE IF ~Decodable(BeforeNul(r.val)) THEN [r EXCEPT !.exc = "UnicodeDecodeError"]
    ELSE [r EXCEPT !.val = BeforeNul(r.val)]

\* _readS(fmt, adr) with fmt = "<n>s"
_readS(m, n, hasAdr, adr) == decodeS(_readX(m, "s", n, hasAdr, adr))

\* Consecutive _readX calls, reads[i] = <<fmt, hasAdr, adr>>, stopping at
\* the first that raises: [exc, val, m], val the values read.
RECURSIVE readAll(_, _, _, _)
RECURSIVE readNext(_, _, _, _)
readNext(r, reads, i, vals) ==
    IF r.exc # "" THEN Failed(r.m, r.exc)
    ELSE readAll(r.m, reads, i + 1, Append(vals, r.val))

readAll(m, reads, i, vals) ==
    IF i > Len(reads) THEN [exc |-> "", val |-> vals, m |-> m]
    ELSE readNext(_readX(m, reads[i][1], 1, reads[i][2], reads[i][3]), reads, i, vals)

\* The fields of datetime.datetime(Y, M, D, h, m, int(s), int((s - int(s)) * 1e6))
trigTs(Y, M, D, h, mi, s) ==
    [Y |-> Y, M |-> M, D |-> D, h |-> h, m |-> mi,
     s |-> TruncDiv(s, 64),
     us |-> TruncDiv((s - 64 * TruncDiv(s, 64)) * 1000000, 64)]

\* datetime.datetime(...) of these fields on instance m: [exc, val, m]
datetime(m, ts) ==
    IF ValidDateTime(ts.Y, ts.M, ts.D, ts.h, ts.m, ts.s, ts.us)
    THEN [exc |-> "", val |-> ts, m |-> m]
    ELSE Failed(m, "ValueError")

\* A timestamp that takes the hour for the minute and the minute for the hour.
makeTimeStamp_Swapped(r) ==
    IF r.exc # "" THEN r
    ELSE datetime(r.m, trigTs(r.val[6], r.val[5], r.val[4], r.val[2],
                              r.val[3], r.val[1]))

\* The timestamp of the values r read: s, m, h, D, M, Y.
makeTimeStamp(r) ==
    IF r.exc # "" THEN r
    ELSE datetime(r.m, trigTs(r.val[6], r.val[5], r.val[4], r.val[3],
                              r.val[2], r.val[1]))

\* The reads of _getTimeStamp(adr).
TimeStampReads(adr) ==
    << <<"d", TRUE, adr>>, <<"b", FALSE, 0>>, <<"b", FALSE, 0>>,
       <<"b", FALSE, 0>>, <<"b", FALSE, 0>>, <<"h", FALSE, 0>> >>

\* _getTimeStamp(adr): [exc, val, m]
_getTimeStamp(m, adr) == makeTimeStamp(readAll(m, TimeStampReads(adr), 1, <<>>))

\* Bytes per item of a numpy dtype.
itemsize(fmt) == IF fmt = "int16" THEN 2 ELSE 1

\* np.fromfile(f, fmt, count) at position p: the items read, each as its
\* bytes in memory.  Fewer than count items are returned when the file
\* ends first; a negative count reads to the end.
fromfile(C, p, fmt, count) ==
    LET avail == Max(0, Len(C) - p) \div itemsize(fmt)
        n     == IF count < 0 THEN avail ELSE Min(count, avail)
    IN  [k \in 1..n |-> ReadBytes(C, p + (k - 1) * itemsize(fmt), itemsize(fmt))]

\* ndarray.byteswap(True)
byteswap(items) == [k \in 1..Len(items) |-> Reverse(items[k])]

\* The integers an array of items holds on this machine.
Values(items) == [k \in 1..Len(items) |-> Signed(MSB(items[k], host))]

\* Where _readSamples seeks to.
SamplePos(m) ==
    m.self._offs + m.self._lWAVE_DESCRIPTOR + m.self._lUSER_TEXT
    + m.self._lTRIGTIME_ARRAY + m.self._lRIS_TIME_ARRAY

\* _readSamples without its byte swap.
swapSamples_NoSwap(m, p, y) ==
    [exc |-> "", val |-> Values(y),
     m   |-> Moved(m, p + Len(y) * itemsize(m.self._smplFmt))]

\* if self._endi == ">": y.byteswap(True); return y
swapSamples(m, p, y) ==
    [exc |-> "",
     val |-> Values(IF m.self._endi = ">" THEN byteswap(y) ELSE y),
     m   |-> Moved(m, p + Len(y) * itemsize(m.self._smplFmt))]

\* _readSamples(): [exc, val, m]
_readSamples(m) ==
    IF FileError(m) # "" THEN Failed(m, FileError(m))
    ELSE IF SamplePos(m) < 0 THEN Failed(m, "OSError")
    ELSE swapSamples(m, SamplePos(m),
                     fromfile(Content(m), SamplePos(m), m.self._smplFmt,
                              m.self._lWAVE_ARRAY_1))

-----------------------------------------------------------------------------
(* The metadata fields open() reads into d, in the order it reads them:    *)
(* [name, fmt, n, adr, conv, table].  conv: "val" the unpacked value,      *)
(* "str" a _readS string, "enum" the table entry, "bool" bool(value).      *)

Fld(name, fmt, adr) ==
    [name |-> name, fmt |-> fmt, n |-> 1, adr |-> adr, conv |-> "val", table |-> <<>>]

Str(name, n, adr) ==
    [name |-> name, fmt |-> "s", n |-> n, adr |-> adr, conv |-> "str", table |-> <<>>]

Enum(name, table, adr) ==
    [name |-> name, fmt |-> "H", n |-> 1, adr |-> adr, conv |-> "enum", table |-> table]

\* Instrument info and waveform info, up to HORIZ_UNCERTAINTY.
InfoFields ==
    << Str("INSTRUMENT_NAME", 16, 76),
       Fld("INSTRUMENT_NUMBER", "l", 92),
       Str("TRACE_LABEL", 16, 96),
       Fld("WAVE_ARRAY_COUNT", "l", 116),
       Fld("PNTS_PER_SCREEN", "l", 120),
       Fld("FIRST_VALID_PNT", "l", 124),
       Fld("LAST_VALID_PNT", "l", 128),
       Fld("FIRST_POINT", "l", 132),
       Fld("SPARSING_FACTOR", "l", 136),
       Fld("SEGMENT_INDEX", "l", 140),
       Fld("SUBARRAY_COUNT", "l", 144),
       Fld("SWEEPS_PER_ACQ", "l", 148),
       Fld("POINTS_PER_PAIR", "h", 152),
       Fld("PAIR_OFFSET", "h", 154),
       Fld("VERTICAL_GAIN", "f", 156),
       Fld("VERTICAL_OFFSET", "f", 160),
       Fld("MAX_VALUE", "f", 164),
       Fld("MIN_VALUE", "f", 168),
       Fld("NOMINAL_BITS", "h", 172),
       Fld("NOM_SUBARRAY_COUNT", "h", 174),
       Fld("HORIZ_INTERVAL", "f", 176),
       Fld("HORIZ_OFFSET", "d", 180),
       Fld("PIXEL_OFFSET", "d", 188),
       Str("VERTUNIT", 48, 196),
       Str("HORUNIT", 48, 244),
       Fld("HORIZ_UNCERTAINTY", "f", 292) >>

\* The fields after TRIGGER_TIME, up to WAVE_SOURCE.
AcqFields ==
    << Fld("ACQ_DURATION", "f", 312),
       Enum("RECORD_TYPE", _recTypes, 316),
       Enum("PROCESSING_DONE", _processings, 318),
       Fld("RIS_SWEEPS", "h", 322),
       Enum("TIMEBASE", _timebases, 324),
       Enum("VERT_COUPLING", _vCouplings, 326),
       Fld("PROBE_ATT", "f", 328),
       Enum("FIXED_VERT_GAIN", _vGains, 332),
       [name |-> "BANDWIDTH_LIMIT", fmt |-> "H", n |-> 1, adr |-> 334,
        conv |-> "bool", table |-> <<>>],
       Fld("VERTICAL_VERNIER", "f", 336),
       Fld("ACQ_VERT_OFFSET", "f", 340),
       Fld("WAVE_SOURCE", "H", 344) >>

\* An index that wraps around the table instead of failing.
Index_Wrap(table, i) == [exc |-> "", val |-> table[(i % Len(table)) + 1]]

\* table[i] of a Python tuple, i unsigned: [exc, val]
Index(table, i) ==
    IF i < Len(table) THEN [exc |-> "", val |-> table[i + 1]]
    ELSE [exc |-> "IndexError", val |-> ""]

\* The value stored in d for field fd, v being the value read: [exc, val]
Convert(fd, v) ==
    CASE fd.conv = "enum" -> Index(fd.table, v)
      [] fd.conv = "bool" -> [exc |-> "", val |-> (v # 0)]
      [] OTHER -> [exc |-> "", val |-> v]

readField(m, fd) ==
    IF fd.conv = "str" THEN _readS(m, fd.n, TRUE, fd.adr)
    ELSE _readX(m, fd.fmt, fd.n, TRUE, fd.adr)

\* d[name] = <the field read and converted>, for fields[i], fields[i+1], ...
\* stopping at the first statement that raises.
RECURSIVE readFields(_, _, _)
RECURSIVE storeField(_, _, _)
RECURSIVE putField(_, _, _, _)
putField(m, e, fields, i) ==
    IF e.exc # "" THEN Raise(m, e.exc)
    ELSE readFields([m EXCEPT !.d = (fields[i].name :> e.val) @@ @], fields, i + 1)

storeField(r, fields, i) ==
    IF r.exc # "" THEN Raise(r.m, r.exc)
    ELSE putField(r.m, Convert(fields[i], r.val), fields, i)

readFields(m, fields, i) ==
    IF i > Len(fields) THEN m
    ELSE storeField(readField(m, fields[i]), fields, i)

\* The instance after a group of statements: at section `next` unless raised.
Then(m, next) == IF m.pc = "raise" THEN m ELSE [m EXCEPT !.pc = next]

-----------------------------------------------------------------------------
(* The sections of Trc.open(fName), each a function of the instance.       *)

\* self._offs = temp.find(b'WAVEDESC'), temp the first bytes of file fName
enter(m, fName, temp) ==
    [m EXCEPT !.handles = Append(@, [name |-> fName, open |-> TRUE,
                                     pos |-> Len(temp)]),
              !.self._f = Len(m.handles) + 1,
              !.self._endi = "",
              !.self._offs = Find(temp, WAVEDESC),
              !.pc = "template", !.exc = "", !.warned = FALSE,
              !.d = EmptyDict, !.y = <<>>, !.x = <<>>]

\* with open(fName, "rb") as f: self._f = f ... temp = f.read(64) ...
open_enter(m, fName) == enter(m, fName, ReadBytes(Files[fName], 0, HeadLen))

setTemplate(r) ==
    IF r.exc # "" THEN Raise(r.m, r.exc)
    ELSE [r.m EXCEPT !.self._TEMPLATE_NAME = r.val,
                     !.warned = (r.val # LECROY_2_3),
                     !.pc = "flags"]

\* Template name, and the warning
open_template(m) == setTemplate(_readS(m, 16, TRUE, 16))

\* The sample format left as an earlier call set it when the flag is set.
setSmplFmt_Keep(r) ==
    IF r.exc # "" THEN Raise(r.m, r.exc)
    ELSE [r.m EXCEPT !.self._smplFmt = IF r.val # 0 THEN @ ELSE "int8",
                     !.pc = "endi"]

setSmplFmt(r) ==
    IF r.exc # "" THEN Raise(r.m, r.exc)
    ELSE [r.m EXCEPT !.self._smplFmt = IF r.val # 0 THEN "int16" ELSE "int8",
                     !.pc = "endi"]

\* 16 or 8 bit sample format?
open_smplFmt(m) == setSmplFmt(_readX(m, "H", 1, TRUE, 32))

setEndi(r) ==
    IF r.exc # "" THEN Raise(r.m, r.exc)
    ELSE [r.m EXCEPT !.self._endi = IF r.val # 0 THEN "<" ELSE ">",
                     !.pc = "lengths"]

\* Endian-ness ("<" or ">")
open_endi(m) == setEndi(_readX(m, "H", 1, TRUE, 34))

\* The attributes the block lengths are read into, with their offsets.
LengthAttrs ==
    << <<"_lWAVE_DESCRIPTOR", 36>>, <<"_lUSER_TEXT", 40>>,
       <<"_lTRIGTIME_ARRAY", 48>>, <<"_lRIS_TIME_ARRAY", 52>>,
       <<"_lWAVE_ARRAY_1", 60>>, <<"_lWAVE_ARRAY_2", 64>> >>

RECURSIVE readLengths(_, _)
RECURSIVE setLength(_, _)
setLength(r, i) ==
    IF r.exc # "" THEN Raise(r.m, r.exc)
    ELSE readLengths([r.m EXCEPT !.self[LengthAttrs[i][1]] = r.val], i + 1)

readLengths(m, i) ==
    IF i > Len(LengthAttrs) THEN [m EXCEPT !.d = EmptyDict, !.pc = "info"]
    ELSE setLength(_readX(m, "l", 1, TRUE, LengthAttrs[i][2]), i)

\* Get length of blocks and arrays; d = dict()
open_lengths(m) == readLengths(m, 1)

\* Get Instrument info, Get Waveform info (to HORIZ_UNCERTAINTY)
open_info(m) == Then(readFields(m, InfoFields, 1), "trigger")

setTrigger(r) ==
    IF r.exc # "" THEN Raise(r.m, r.exc)
    ELSE [r.m EXCEPT !.d = ("TRIGGER_TIME" :> r.val) @@ @, !.pc = "acq"]

\* d["TRIGGER_TIME"] = self._getTimeStamp(296)
open_trigger(m) == setTrigger(_getTimeStamp(m, 296))

\* ACQ_DURATION ... WAVE_SOURCE
open_acq(m) == Then(readFields(m, AcqFields, 1), "usertext")

setUserText(r) ==
    IF r.exc # "" THEN Raise(r.m, r.exc)
    ELSE [r.m EXCEPT !.d = ("USER_TEXT" :> r.val) @@ @, !.pc = "samples"]

\* The user text read at the nominal descriptor length.
open_usertext_Fixed(m) ==
    setUserText(_readS(m, m.self._lUSER_TEXT, TRUE, NominalDesc))

\* d["USER_TEXT"] = self._readS("{0}s".format(self._lUSER_TEXT), self._lWAVE_DESCRIPTOR)
open_usertext(m) ==
    setUserText(_readS(m, m.self._lUSER_TEXT, TRUE, m.self._lWAVE_DESCRIPTOR))

setSamples(r) ==
    IF r.exc # "" THEN Raise(r.m, r.exc)
    ELSE [r.m EXCEPT !.y = r.val, !.pc = "scale"]

\* y = self._readSamples()
open_samples(m) == setSamples(_readSamples(m))

\* y = d["VERTICAL_GAIN"] * y - d["VERTICAL_OFFSET"]
open_scale(m) ==
    [m EXCEPT !.y = [k \in 1..Len(m.y) |->
                        m.d["VERTICAL_GAIN"] * m.y[k] - m.d["VERTICAL_OFFSET"]],
              !.pc = "axis"]

\* A time axis that starts at sample index 0.
open_axis_ZeroBased(m) ==
    [m EXCEPT !.x = [k \in 1..Len(m.y) |->
                        (k - 1) * m.d["HORIZ_INTERVAL"] + m.d["HORIZ_OFFSET"]],
              !.pc = "exit"]

\* x = np.arange(1, len(y) + 1, dtype=float); x *= HORIZ_INTERVAL; x += HORIZ_OFFSET
open_axis(m) ==
    [m EXCEPT !.x = [k \in 1..Len(m.y) |->
                        k * m.d["HORIZ_INTERVAL"] + m.d["HORIZ_OFFSET"]],
              !.pc = "exit"]

\* The with block ends; self.f = None; self.x = x ...; return x, y, d
open_return(m) ==
    [CloseFile(m) EXCEPT !.self.f = "None", !.self.x = m.x, !.self.y = m.y,
                         !.self.d = m.d, !.pc = "returned"]

\* An exception leaving open() with the file left open.
open_raise_NoClose(m) == [m EXCEPT !.pc = "failed"]

\* An exception leaves the with block and open()
open_raise(m) == [CloseFile(m) EXCEPT !.pc = "failed"]

\* Whether no open() call is in progress.
Ended(m) == m.pc \in {"idle", "returned", "failed"}

\* The next section of the call in progress.
Step(m) ==
    CASE m.pc = "template" -> open_template(m)
      [] m.pc = "flags"    -> open_smplFmt(m)
      [] m.pc = "endi"     -> open_endi(m)
      [] m.pc = "lengths"  -> open_lengths(m)
      [] m.pc = "info"     -> open_info(m)
      [] m.pc = "trigger"  -> open_trigger(m)
      [] m.pc = "acq"      -> open_acq(m)
      [] m.pc = "usertext" -> open_usertext(m)
      [] m.pc = "samples"  -> open_samples(m)
      [] m.pc = "scale"    -> open_scale(m)
      [] m.pc = "axis"     -> open_axis(m)
      [] m.pc = "exit"     -> open_return(m)
      [] m.pc = "raise"    -> open_raise(m)

\* The call in progress run to its end.
RECURSIVE Finish(_)
Finish(m) == IF Ended(m) THEN m ELSE Finish(Step(m))

\* Trc().open(fName): the call on a freshly constructed instance.
FreshOpen(fName) == Finish(open_enter(NewTrc, fName))

\* What a call gave its caller: the returned tuple or the exception.
Outcome(m) ==
    IF m.pc = "returned" THEN [ok |-> TRUE, exc |-> "", x |-> m.x, y |-> m.y, d |-> m.d]
    ELSE [ok |-> FALSE, exc |-> m.exc, x |-> <<>>, y |-> <<>>, d |-> EmptyDict]

-----------------------------------------------------------------------------
(* The state machine *)

Init ==
    /\ host \in {"<", ">"}
    /\ dir \in Directories
    /\ trc = NewTrc
    /\ calls = 0

Call ==
    /\ Ended(trc)
    /\ calls < MaxCalls
    /\ \E fName \in dir : trc' = open_enter(trc, fName)
    /\ calls' = calls + 1
    /\ UNCHANGED <<host, dir>>

ReadTemplate ==
    /\ trc.pc = "template"
    /\ trc' = open_template(trc)
    /\ UNCHANGED <<host, dir, calls>>

ReadSmplFmt ==
    /\ trc.pc = "flags"
    /\ trc' = open_smplFmt(trc)
    /\ UNCHANGED <<host, dir, calls>>

ReadEndi ==
    /\ trc.pc = "endi"
    /\ trc' = open_endi(trc)
    /\ UNCHANGED <<host, dir, calls>>

ReadLengths ==
    /\ trc.pc = "lengths"
    /\ trc' = open_lengths(trc)
    /\ UNCHANGED <<host, dir, calls>>

ReadInfo ==
    /\ trc.pc = "info"
    /\ trc' = open_info(trc)
    /\ UNCHANGED <<host, dir, calls>>

ReadTrigger ==
    /\ trc.pc = "trigger"
    /\ trc' = open_trigger(trc)
    /\ UNCHANGED <<host, dir, calls>>

ReadAcq ==
    /\ trc.pc = "acq"
    /\ trc' = open_acq(trc)
    /\ UNCHANGED <<host, dir, calls>>

ReadUserText ==
    /\ trc.pc = "usertext"
    /\ trc' = open_usertext(trc)
    /\ UNCHANGED <<host, dir, calls>>

ReadSamples ==
    /\ trc.pc = "samples"
    /\ trc' = open_samples(trc)
    /\ UNCHANGED <<host, dir, calls>>

Scale ==
    /\ trc.pc = "scale"
    /\ trc' = open_scale(trc)
    /\ UNCHANGED <<host, dir, calls>>

Axis ==
    /\ trc.pc = "axis"
    /\ trc' = open_axis(trc)
    /\ UNCHANGED <<host, dir, calls>>

Return ==
    /\ trc.pc = "exit"
    /\ trc' = open_return(trc)
    /\ UNCHANGED <<host, dir, calls>>

Propagate ==
    /\ trc.pc = "raise"
    /\ trc' = open_raise(trc)
    /\ UNCHANGED <<host, dir, calls>>

Next ==
    \/ Call
    \/ ReadTemplate
    \/ ReadSmplFmt
    \/ ReadEndi
    \/ ReadLengths
    \/ ReadInfo
    \/ ReadTrigger
    \/ ReadAcq
    \/ ReadUserText
    \/ ReadSamples
    \/ Scale
    \/ Axis
    \/ Return
    \/ Propagate

Spec == Init /\ [][Next]_vars

-----------------------------------------------------------------------------
(* Properties.  Cur is the file of the latest open() call; a property      *)
(* that speaks of what a file holds reads it off the file's description,   *)
(* not off what the program decoded.                                       *)

Cur == trc.handles[Len(trc.handles)].name

\* The position of the latest file object.
CurPos == trc.handles[Len(trc.handles)].pos

\* The marker lies within the first HeadLen bytes and the block is intact.
WellFormed(p) == p.drop = 0 /\ p.marker = WAVEDESC /\ p.pre <= HeadLen - 8

\* Sections of open() after the fields named were stored in d.
AfterTrigger == {"acq", "usertext", "samples", "scale", "axis", "exit", "returned"}

AfterAcq == {"usertext", "samples", "scale", "axis", "exit", "returned"}

AfterUserText == {"samples", "scale", "axis", "exit", "returned"}

\* C1: if "WAVEDESC" does not occur in the first 64 bytes, open() fails and
\* returns no (x, y, d), whatever the rest of the file holds.
C1_MarkerAbsentFails ==
    (calls > 0 /\ Ended(trc)
     /\ Find(ReadBytes(Files[Cur], 0, HeadLen), WAVEDESC) = -1)
    => trc.pc = "failed"

\* C2: on a file that holds every byte its header declares, _readSamples
\* returns wave_array_1_length samples for 8-bit and wave_array_1_length / 2
\* samples for 16-bit: the samples of the wave_array_1_length bytes at the
\* computed position, and none from the bytes after them.
C2_SamplesAreWaveArray1 ==
    (trc.pc = "scale"
     /\ Len(Files[Cur]) >= SamplePos(trc) + trc.self._lWAVE_ARRAY_1)
    => /\ Len(trc.y) = trc.self._lWAVE_ARRAY_1 \div itemsize(trc.self._smplFmt)
       /\ CurPos = SamplePos(trc) + trc.self._lWAVE_ARRAY_1

\* The first sample of a big-endian 16-bit file is stored as 0x01, 0x00.
C3_Case ==
    /\ trc.pc = "scale"
    /\ WellFormed(Cur) /\ Cur.order = ">" /\ Cur.fmt16
    /\ Len(Cur.wave) >= 2 /\ SubSeq(Cur.wave, 1, 2) = <<1, 0>>
    /\ Len(trc.y) > 0

\* C3 as stated: in a big-endian 16-bit file the stored sample bytes
\* 0x01, 0x00 decode to the raw sample 1.
C3_SwapGivesOne == C3_Case => trc.y[1] = 1

\* C3 amended: in a big-endian 16-bit file the stored sample bytes
\* 0x01, 0x00 decode to the raw sample 256, their big-endian value, when
\* the program runs on a little-endian machine (and to 1 on a big-endian
\* machine, where np.fromfile reads 256 and the swap turns it into 1).
C3_SwapGivesBigEndianValue ==
    C3_Case => trc.y[1] = IF host = "<" THEN 256 ELSE 1

C3_Witness == C3_Case /\ host = "<" /\ trc.y[1] = 256

\* C4: open() returns a result only if the file holds every byte the reads
\* need: the fixed-offset fields, the user text, and the
\* wave_array_1_length bytes of the sample array.
C4_NoResultFromTruncatedInput ==
    trc.pc = "returned"
    => /\ Len(Files[Cur]) >= trc.self._offs + NominalDesc
       /\ Len(Files[Cur]) >= trc.self._offs + trc.self._lWAVE_DESCRIPTOR
                             + trc.self._lUSER_TEXT
       /\ Len(Files[Cur]) >= SamplePos(trc) + trc.self._lWAVE_ARRAY_1

\* The enumerated fields: <<name in d, table, index stored in file p>>.
EnumsOf(p) ==
    { <<"RECORD_TYPE", _recTypes, p.recType>>,
      <<"PROCESSING_DONE", _processings, p.processing>>,
      <<"TIMEBASE", _timebases, p.timebase>>,
      <<"VERT_COUPLING", _vCouplings, p.vCoupling>>,
      <<"FIXED_VERT_GAIN", _vGains, p.vGain>> }

\* C5: each of the five enumerated fields with a stored index below the
\* length of its table (10, 8, 49, 5, 28) decodes to that entry of the
\* table; a stored index at or above the length makes open() fail.
C5_EnumInRangeOrFail ==
    (calls > 0 /\ WellFormed(Cur))
    => /\ Len(_recTypes) = 10 /\ Len(_processings) = 8 /\ Len(_timebases) = 49
       /\ Len(_vCouplings) = 5 /\ Len(_vGains) = 28
       /\ trc.pc \in AfterAcq
          => \A e \in EnumsOf(Cur) :
                e[3] < Len(e[2]) /\ trc.d[e[1]] = e[2][e[3] + 1]
       /\ (Ended(trc) /\ \E e \in EnumsOf(Cur) : e[3] >= Len(e[2]))
          => trc.pc = "failed"

C5_Witness ==
    /\ calls > 0 /\ WellFormed(Cur)
    /\ Cur.vGain = Len(_vGains)
    /\ trc.pc = "failed" /\ trc.exc = "IndexError"

\* C6: the outcome of every open() call on a used instance is the outcome
\* of the same call on a freshly constructed instance.
C6_CallsIndependent ==
    (calls > 0 /\ Ended(trc)) => Outcome(trc) = Outcome(FreshOpen(Cur))

C6_Witness ==
    /\ calls = 2 /\ trc.pc = "returned"
    /\ trc.handles[1].name.order # Cur.order
    /\ trc.handles[1].name.fmt16 # Cur.fmt16

\* C7: the file an open() call opened is closed when the call has ended,
\* by return or by exception; while a call runs, self._f is the file this
\* call opened, so no read goes to the file of a call that ended.
C7_FileClosedOnExit ==
    /\ \A h \in 1..(Len(trc.handles) - 1) : ~trc.handles[h].open
    /\ (calls > 0 /\ Ended(trc)) => ~trc.handles[Len(trc.handles)].open
    /\ ~Ended(trc)
       => trc.self._f = Len(trc.handles) /\ trc.handles[trc.self._f].open

C7_Witness ==
    /\ calls = 2 /\ trc.pc = "failed" /\ trc.exc = "ValueError"
    /\ ~trc.handles[1].open /\ ~trc.handles[2].open

\* 64 * (the single or double these bytes hold), for the values in the files.
KnownFloat(b) ==
    CASE b = <<63, 0, 0, 0>> -> 32
      [] b = <<62, 128, 0, 0>> -> 16
      [] b = <<191, 192, 0, 0>> -> -96
      [] b = <<191, 244, 0, 0, 0, 0, 0, 0>> -> -80
      [] b = <<0, 0, 0, 0, 0, 0, 0, 0>> -> 0
      [] b = <<63, 224, 0, 0, 0, 0, 0, 0>> -> 32

C9_UserTextAtDescriptorLength ==
    (trc.pc \in AfterUserText /\ WellFormed(Cur))
    => /\ trc.d["USER_TEXT"] = BeforeNul(Cur.text)
       /\ trc.self._lWAVE_DESCRIPTOR = Cur.ldesc
       /\ trc.self._lUSER_TEXT = Len(Cur.text)
       /\ trc.pc = "samples" => CurPos = Cur.pre + Cur.ldesc + Len(Cur.text)

C9_Witness ==
    /\ trc.pc = "samples" /\ WellFormed(Cur)
    /\ Cur.ldesc = NominalDesc + 4
    /\ trc.d["USER_TEXT"] = <<65, 66, 67, 68>>

\* int(s) and the microseconds of the seconds values in the files.
KnownSeconds(b) ==
    CASE b = <<64, 70, 160, 0, 0, 0, 0, 0>> -> [s |-> 45, us |-> 250000]
      [] b = <<64, 77, 254, 0, 0, 0, 0, 0>> -> [s |-> 59, us |-> 984375]
      [] b = <<64, 78, 0, 0, 0, 0, 0, 0>> -> [s |-> 60, us |-> 0]
      [] b = <<191, 224, 0, 0, 0, 0, 0, 0>> -> [s |-> 0, us |-> -500000]
      [] b = <<0, 0, 0, 0, 0, 0, 0, 0>> -> [s |-> 0, us |-> 0]

\* The trigger time stored in file p.
StoredTime(p) ==
    [Y |-> p.yr, M |-> p.mo, D |-> p.dy, h |-> p.hr, m |-> p.mi,
     s |-> KnownSeconds(p.sec).s, us |-> KnownSeconds(p.sec).us]

InCalendar(t) == ValidDateTime(t.Y, t.M, t.D, t.h, t.m, t.s, t.us)

\* C10: TRIGGER_TIME carries the year, month, day, hour and minute stored
\* at +308, +307, +306, +305, +304 and the seconds stored at +296, split
\* into whole seconds and microseconds; the six reads end at +310; stored
\* values outside the calendar (month 13, day 32, ...) make open() fail,
\* and the timestamp fails on nothing else than such values or a file that
\* ends before +310.
C10_TriggerTime ==
    (calls > 0 /\ WellFormed(Cur))
    => /\ trc.pc \in AfterTrigger
          => trc.d["TRIGGER_TIME"] = StoredTime(Cur) /\ InCalendar(StoredTime(Cur))
       /\ trc.pc = "acq" => CurPos = Cur.pre + 310
       /\ (Ended(trc) /\ (~InCalendar(StoredTime(Cur)) \/ Cur.mo = 13 \/ Cur.dy = 32))
          => trc.pc = "failed"
       /\ (trc.pc \in {"raise", "failed"}
           /\ "HORIZ_UNCERTAINTY" \in DOMAIN trc.d
           /\ "TRIGGER_TIME" \notin DOMAIN trc.d)
          => \/ ~InCalendar(StoredTime(Cur)) /\ trc.exc = "ValueError"
             \/ Len(Files[Cur]) < Cur.pre + 310 /\ trc.exc = "struct.error"

\* Seconds 45.25, minute 30, hour 14, day 5, month 6, year 2015.
C10_Witness ==
    /\ trc.pc = "returned" /\ WellFormed(Cur)
    /\ Cur.sec = <<64, 70, 160, 0, 0, 0, 0, 0>>
    /\ trc.d["TRIGGER_TIME"] =
         [Y |-> 2015, M |-> 6, D |-> 5, h |-> 14, m |-> 30, s |-> 45, us |-> 250000]

====
